---- MODULE Spec2Model ----
(***************************************************************************)
(* Model of the match simulator of src/main.rs: the per-game Play / Attack *)
(* / Halt state machine of simulate_games and the result tally of          *)
(* print_win_rates, run once per frame by the Update schedule.             *)
(*                                                                         *)
(* A Card entity is referenced by exactly one play-area slot, so a slot    *)
(* holds the card's (damage, health) record directly; None is an empty     *)
(* slot.  The results of the rng calls (shuffle of the deck, shuffle of    *)
(* the open slots) are inputs of the Play phase.                           *)
(***************************************************************************)
EXTENDS Integers, Sequences, FiniteSets, TLC

VARIABLES
  games,        \* Game of each game id: player, enemy, turn, side,
                \* turn_count
  decks,        \* Deck of each game's Player and Enemy entity: cards, health
  areas,        \* PlayArea of each game's Player and Enemy entity: cards
  ran,          \* the systems of the Update schedule run in this frame
  reports,      \* number of "Results: ..." lines logged by print_win_rates
  last_report   \* the counts of the last such line

\* Commands (spawn of a drawn card, despawn of a destroyed one) are applied
\* after the system; a game takes one phase per run, so a card placed by a
\* Play phase is live when the following Attack phase reads it.

vars == <<games, decks, areas, ran, reports, last_report>>

\* ---- bounds and program constants -------------------------------------
NumGames == 2         \* games of SpecAll (NUMBER_OF_GAMES is 100)
MaxReports == 6       \* frames observed after every game has halted
MAX_TURN_COUNT == 500
SLOT_RANGE_END == 2
AREA_SIZE == 3
DECK_HEALTH == 5

Sides == {"Player", "Enemy"}
Slots == 0 .. (SLOT_RANGE_END - 1)
None == [damage |-> -1, health |-> -1, none |-> TRUE]

Card(d, h) == [damage |-> d, health |-> h, none |-> FALSE]

dummy_deck ==
  [cards |-> << Card(3, 1), Card(1, 1), Card(0, 5), Card(2, 1) >>,
   health |-> DECK_HEALTH]

PlayAreaDefault == [cards |-> [i \in 0 .. (AREA_SIZE - 1) |-> None]]

Other(side) == IF side = "Player" THEN "Enemy" ELSE "Player"

\* ---- rng -----------------------------------------------------------------
Perms(n) == {p \in [1 .. n -> 1 .. n] : \A i, j \in 1 .. n : p[i] = p[j] => i = j}

\* rng.shuffle(&mut v): every permutation of v is a possible outcome
Shuffles(v) == {[i \in 1 .. Len(v) |-> v[p[i]]] : p \in Perms(Len(v))}

\* mutant of get_random_open_slot: the loop runs over the whole array
get_random_open_slot_WholeArea(area) ==
  LET slots == {s \in 0 .. (AREA_SIZE - 1) : area.cards[s].none}
  IN  IF slots = {} THEN {-1} ELSE slots

\* PlayArea::get_random_open_slot: the possible results, -1 standing for
\* Option::None
get_random_open_slot(area) ==
  LET slots == {s \in Slots : area.cards[s].none}
  IN  IF slots = {} THEN {-1} ELSE slots

\* ---- one match: m = [game, decks, areas] --------------------------------
GameIds == DOMAIN games

\* the components the queries of simulate_games range over
World == [games |-> games, decks |-> decks, areas |-> areas]

\* game.player / game.enemy are entity ids <<game id, side>>; the match of
\* game g in world w is its Game with the Deck and PlayArea of to_play and
\* to_hit, as players.get_mut / get_many_mut return them
MatchIn(w, g) ==
  LET player == w.games[g].player
      enemy == w.games[g].enemy
  IN  [game |-> w.games[g],
       decks |-> [Player |-> w.decks[player[1]][player[2]],
                  Enemy |-> w.decks[enemy[1]][enemy[2]]],
       areas |-> [Player |-> w.areas[player[1]][player[2]],
                  Enemy |-> w.areas[enemy[1]][enemy[2]]]]

Match(g) == MatchIn(World, g)

\* the world after the mutable borrows of game g's iteration wrote m
PutMatch(w, g, m) ==
  LET player == w.games[g].player
      enemy == w.games[g].enemy
  IN  [games |-> [w.games EXCEPT ![g] = m.game],
       decks |-> [w.decks EXCEPT ![player[1]][player[2]] = m.decks.Player,
                                 ![enemy[1]][enemy[2]] = m.decks.Enemy],
       areas |-> [w.areas EXCEPT ![player[1]][player[2]] = m.areas.Player,
                                 ![enemy[1]][enemy[2]] = m.areas.Enemy]]

\* mutant of PlayPhase: a card that finds no open slot goes back to the deck
PlayPhase_ReturnsUnplayed(m, shuffled, slot) ==
  LET to_play == m.game.side
      n == Len(shuffled)
      rest == IF n = 0 \/ slot = -1 THEN shuffled
              ELSE SubSeq(shuffled, 1, n - 1)
      decks1 == [m.decks EXCEPT ![to_play].cards = rest]
      areas1 == IF n > 0 /\ slot # -1
                THEN [m.areas EXCEPT ![to_play].cards[slot] = shuffled[n]]
                ELSE m.areas
  IN  [game |-> [m.game EXCEPT !.turn = "Attack"],
       decks |-> decks1, areas |-> areas1]

\* mutant of PlayPhase: a card that finds no open slot replaces slot 0
PlayPhase_OverwritesSlot(m, shuffled, slot) ==
  LET to_play == m.game.side
      n == Len(shuffled)
      rest == IF n = 0 THEN shuffled ELSE SubSeq(shuffled, 1, n - 1)
      decks1 == [m.decks EXCEPT ![to_play].cards = rest]
      areas1 == IF n > 0
                THEN [m.areas EXCEPT ![to_play].cards[IF slot = -1 THEN 0 ELSE slot]
                                       = shuffled[n]]
                ELSE m.areas
  IN  [game |-> [m.game EXCEPT !.turn = "Attack"],
       decks |-> decks1, areas |-> areas1]

\* mutant of PlayPhase: with an empty deck the game stays in Play
PlayPhase_EmptyDeckStays(m, shuffled, slot) ==
  LET to_play == m.game.side
      n == Len(shuffled)
      rest == IF n = 0 THEN shuffled ELSE SubSeq(shuffled, 1, n - 1)
      decks1 == [m.decks EXCEPT ![to_play].cards = rest]
      areas1 == IF n > 0 /\ slot # -1
                THEN [m.areas EXCEPT ![to_play].cards[slot] = shuffled[n]]
                ELSE m.areas
  IN  [game |-> IF n = 0 THEN m.game ELSE [m.game EXCEPT !.turn = "Attack"],
       decks |-> decks1, areas |-> areas1]

\* GamePhase::Play arm; shuffled and slot are the results of the rng calls
PlayPhase(m, shuffled, slot) ==
  LET to_play == m.game.side
      n == Len(shuffled)
      rest == IF n = 0 THEN shuffled ELSE SubSeq(shuffled, 1, n - 1)
      decks1 == [m.decks EXCEPT ![to_play].cards = rest]
      areas1 == IF n > 0 /\ slot # -1
                THEN [m.areas EXCEPT ![to_play].cards[slot] = shuffled[n]]
                ELSE m.areas
  IN  [game |-> [m.game EXCEPT !.turn = "Attack"],
       decks |-> decks1, areas |-> areas1]

\* mutant of ResolveSlot: the direct attack halts on health < 0
ResolveSlot_HaltBelowZero(m, slot) ==
  LET to_play == m.game.side
      to_hit == Other(m.game.side)
      card == m.areas[to_play].cards[slot]
      defender == m.areas[to_hit].cards[slot]
      attack == card.damage
  IN  IF card.none THEN m
      ELSE IF ~defender.none
      THEN LET health == defender.health - attack
           IN  IF health >= 0
               THEN [m EXCEPT !.areas[to_hit].cards[slot].health = health]
               ELSE [m EXCEPT !.areas[to_hit].cards[slot] = None]
      ELSE LET health == m.decks[to_hit].health - attack
           IN  IF health < 0
               THEN [m EXCEPT !.decks[to_hit].health = health,
                              !.game.turn = "Halt"]
               ELSE [m EXCEPT !.decks[to_hit].health = health]

\* mutant of ResolveSlot: a blocker left with health 0 is destroyed
ResolveSlot_DestroyAtZero(m, slot) ==
  LET to_play == m.game.side
      to_hit == Other(m.game.side)
      card == m.areas[to_play].cards[slot]
      defender == m.areas[to_hit].cards[slot]
      attack == card.damage
  IN  IF card.none THEN m
      ELSE IF ~defender.none
      THEN LET health == defender.health - attack
           IN  IF health > 0
               THEN [m EXCEPT !.areas[to_hit].cards[slot].health = health]
               ELSE [m EXCEPT !.areas[to_hit].cards[slot] = None]
      ELSE LET health == m.decks[to_hit].health - attack
           IN  IF health <= 0
               THEN [m EXCEPT !.decks[to_hit].health = health,
                              !.game.turn = "Halt"]
               ELSE [m EXCEPT !.decks[to_hit].health = health]

\* mutant of ResolveSlot: a blocked attack that destroys the blocker carries
\* the excess damage over to the defender's deck
ResolveSlot_Tramples(m, slot) ==
  LET to_play == m.game.side
      to_hit == Other(m.game.side)
      card == m.areas[to_play].cards[slot]
      defender == m.areas[to_hit].cards[slot]
      attack == card.damage
  IN  IF card.none THEN m
      ELSE IF ~defender.none
      THEN LET health == defender.health - attack
           IN  IF health >= 0
               THEN [m EXCEPT !.areas[to_hit].cards[slot].health = health]
               ELSE [m EXCEPT !.areas[to_hit].cards[slot] = None,
                              !.decks[to_hit].health = @ + health]
      ELSE LET health == m.decks[to_hit].health - attack
           IN  IF health <= 0
               THEN [m EXCEPT !.decks[to_hit].health = health,
                              !.game.turn = "Halt"]
               ELSE [m EXCEPT !.decks[to_hit].health = health]

\* mutant of ResolveSlot: an unblocked attack leaves the deck health alone
ResolveSlot_NoDirectDamage(m, slot) ==
  LET to_play == m.game.side
      to_hit == Other(m.game.side)
      card == m.areas[to_play].cards[slot]
      defender == m.areas[to_hit].cards[slot]
      attack == card.damage
  IN  IF card.none THEN m
      ELSE IF ~defender.none
      THEN LET health == defender.health - attack
           IN  IF health >= 0
               THEN [m EXCEPT !.areas[to_hit].cards[slot].health = health]
               ELSE [m EXCEPT !.areas[to_hit].cards[slot] = None]
      ELSE LET health == m.decks[to_hit].health
           IN  IF health <= 0
               THEN [m EXCEPT !.decks[to_hit].health = health,
                              !.game.turn = "Halt"]
               ELSE [m EXCEPT !.decks[to_hit].health = health]

\* mutant of ResolveSlot: a blocker is destroyed only below -1
ResolveSlot_KeepsDead(m, slot) ==
  LET to_play == m.game.side
      to_hit == Other(m.game.side)
      card == m.areas[to_play].cards[slot]
      defender == m.areas[to_hit].cards[slot]
      attack == card.damage
  IN  IF card.none THEN m
      ELSE IF ~defender.none
      THEN LET health == defender.health - attack
           IN  IF health >= -1
               THEN [m EXCEPT !.areas[to_hit].cards[slot].health = health]
               ELSE [m EXCEPT !.areas[to_hit].cards[slot] = None]
      ELSE LET health == m.decks[to_hit].health - attack
           IN  IF health <= 0
               THEN [m EXCEPT !.decks[to_hit].health = health,
                              !.game.turn = "Halt"]
               ELSE [m EXCEPT !.decks[to_hit].health = health]

\* body of `for slot in 0..2` of the Attack arm; the `continue` after
\* game.turn = Halt continues this inner loop, so the next slot is resolved
ResolveSlot(m, slot) ==
  LET to_play == m.game.side
      to_hit == Other(m.game.side)
      card == m.areas[to_play].cards[slot]
      defender == m.areas[to_hit].cards[slot]
      attack == card.damage
  IN  IF card.none THEN m
      ELSE IF ~defender.none
      THEN LET health == defender.health - attack
           IN  IF health >= 0
               THEN [m EXCEPT !.areas[to_hit].cards[slot].health = health]
               ELSE [m EXCEPT !.areas[to_hit].cards[slot] = None]
      ELSE LET health == m.decks[to_hit].health - attack
           IN  IF health <= 0
               THEN [m EXCEPT !.decks[to_hit].health = health,
                              !.game.turn = "Halt"]
               ELSE [m EXCEPT !.decks[to_hit].health = health]

RECURSIVE ResolveSlots(_, _)
ResolveSlots(m, slot) ==
  IF slot >= SLOT_RANGE_END THEN m
  ELSE ResolveSlots(ResolveSlot(m, slot), slot + 1)

\* mutant of AttackPhase: the turn cap halts without side = Draw
AttackPhase_CapKeepsSide(m) ==
  LET m1 == ResolveSlots(m, 0)
      count == m1.game.turn_count + 1
  IN  IF m1.game.turn = "Halt" THEN m1
      ELSE IF count > MAX_TURN_COUNT
      THEN [m1 EXCEPT !.game.turn_count = count, !.game.turn = "Halt"]
      ELSE [m1 EXCEPT !.game.turn_count = count, !.game.turn = "Play",
                      !.game.side = Other(m1.game.side)]

\* mutant of AttackPhase: the turn cap is tested with >=
AttackPhase_CapOffByOne(m) ==
  LET m1 == ResolveSlots(m, 0)
      count == m1.game.turn_count + 1
  IN  IF m1.game.turn = "Halt" THEN m1
      ELSE IF count >= MAX_TURN_COUNT
      THEN [m1 EXCEPT !.game.turn_count = count, !.game.turn = "Halt",
                      !.game.side = "Draw"]
      ELSE [m1 EXCEPT !.game.turn_count = count, !.game.turn = "Play",
                      !.game.side = Other(m1.game.side)]

\* mutant of AttackPhase: side is not flipped at the end of the turn
AttackPhase_NoFlip(m) ==
  LET m1 == ResolveSlots(m, 0)
      count == m1.game.turn_count + 1
  IN  IF m1.game.turn = "Halt" THEN m1
      ELSE IF count > MAX_TURN_COUNT
      THEN [m1 EXCEPT !.game.turn_count = count, !.game.turn = "Halt",
                      !.game.side = "Draw"]
      ELSE [m1 EXCEPT !.game.turn_count = count, !.game.turn = "Play"]

\* mutant of AttackPhase: turn_count is tested but never incremented
AttackPhase_NoCount(m) ==
  LET m1 == ResolveSlots(m, 0)
      count == m1.game.turn_count
  IN  IF m1.game.turn = "Halt" THEN m1
      ELSE IF count > MAX_TURN_COUNT
      THEN [m1 EXCEPT !.game.turn_count = count, !.game.turn = "Halt",
                      !.game.side = "Draw"]
      ELSE [m1 EXCEPT !.game.turn_count = count, !.game.turn = "Play",
                      !.game.side = Other(m1.game.side)]

\* mutant of AttackPhase: a win also passes the turn to the other side
AttackPhase_HaltFlipsSide(m) ==
  LET m1 == ResolveSlots(m, 0)
      count == m1.game.turn_count + 1
  IN  IF m1.game.turn = "Halt"
      THEN [m1 EXCEPT !.game.side = Other(m1.game.side)]
      ELSE IF count > MAX_TURN_COUNT
      THEN [m1 EXCEPT !.game.turn_count = count, !.game.turn = "Halt",
                      !.game.side = "Draw"]
      ELSE [m1 EXCEPT !.game.turn_count = count, !.game.turn = "Play",
                      !.game.side = Other(m1.game.side)]

\* mutant of AttackPhase: the turn is counted and capped before the win is
\* looked at
AttackPhase_CountsBeforeWin(m) ==
  LET m1 == ResolveSlots(m, 0)
      count == m1.game.turn_count + 1
  IN  IF count > MAX_TURN_COUNT
      THEN [m1 EXCEPT !.game.turn_count = count, !.game.turn = "Halt",
                      !.game.side = "Draw"]
      ELSE IF m1.game.turn = "Halt"
      THEN [m1 EXCEPT !.game.turn_count = count]
      ELSE [m1 EXCEPT !.game.turn_count = count, !.game.turn = "Play",
                      !.game.side = Other(m1.game.side)]

\* GamePhase::Attack arm
AttackPhase(m) ==
  LET m1 == ResolveSlots(m, 0)
      count == m1.game.turn_count + 1
  IN  IF m1.game.turn = "Halt" THEN m1
      ELSE IF count > MAX_TURN_COUNT
      THEN [m1 EXCEPT !.game.turn_count = count, !.game.turn = "Halt",
                      !.game.side = "Draw"]
      ELSE [m1 EXCEPT !.game.turn_count = count, !.game.turn = "Play",
                      !.game.side = Other(m1.game.side)]

\* mutant of StepGame: the Halt arm falls through to the Attack arm
StepGame_HaltAttacks(m) ==
  IF m.game.side = "Draw" THEN {m}
  ELSE IF m.game.turn = "Play"
  THEN {PlayPhase(m, sh, sl) :
          sh \in Shuffles(m.decks[m.game.side].cards),
          sl \in get_random_open_slot(m.areas[m.game.side])}
  ELSE {AttackPhase([m EXCEPT !.game.turn = "Attack"])}

\* the possible results of one iteration of `for mut game in &mut games`
StepGame(m) ==
  IF m.game.side = "Draw" THEN {m}
  ELSE IF m.game.turn = "Play"
  THEN {PlayPhase(m, sh, sl) :
          sh \in Shuffles(m.decks[m.game.side].cards),
          sl \in get_random_open_slot(m.areas[m.game.side])}
  ELSE IF m.game.turn = "Attack" THEN {AttackPhase(m)}
  ELSE {m}

\* first loop of print_win_rates
AllHalted == \A g \in GameIds : games[g].turn = "Halt"

\* mutant of Tally: Side::Draw is counted in no bucket
RECURSIVE Tally_DrawUncounted(_, _)
Tally_DrawUncounted(gs, n) ==
  IF n = 0 THEN <<0, 0, 0>>
  ELSE LET counts == Tally_DrawUncounted(gs, n - 1)
           side == gs[n - 1].side
       IN  IF side = "Player" THEN [counts EXCEPT ![1] = @ + 1]
           ELSE IF side = "Enemy" THEN [counts EXCEPT ![2] = @ + 1]
           ELSE counts

\* second loop of print_win_rates: counts after the games 0 .. n - 1
RECURSIVE Tally(_, _)
Tally(gs, n) ==
  IF n = 0 THEN <<0, 0, 0>>
  ELSE LET counts == Tally(gs, n - 1)
           side == gs[n - 1].side
       IN  IF side = "Player" THEN [counts EXCEPT ![1] = @ + 1]
           ELSE IF side = "Enemy" THEN [counts EXCEPT ![2] = @ + 1]
           ELSE [counts EXCEPT ![3] = @ + 1]

\* ---- the systems of the Update schedule --------------------------------
\* simulate_games and print_win_rates are added without an ordering, so a
\* frame runs each of them once, in either order
Systems == {"simulate_games", "print_win_rates"}

EndFrame(sys) == IF ran \cup {sys} = Systems THEN {} ELSE ran \cup {sys}

\* `for mut game in &mut games`: the possible worlds after iterating the
\* games of the sequence order, one after the other
RECURSIVE IterateGames(_, _)
IterateGames(w, order) ==
  IF order = << >> THEN {w}
  ELSE UNION {IterateGames(PutMatch(w, Head(order), m), Tail(order)) :
                m \in StepGame(MatchIn(w, Head(order)))}

\* the query yields the games in the order they were spawned
QueryOrder == [i \in 1 .. Cardinality(GameIds) |-> i - 1]

simulate_games ==
  /\ "simulate_games" \notin ran
  /\ \E w \in IterateGames(World, QueryOrder) :
       /\ games' = w.games
       /\ decks' = w.decks
       /\ areas' = w.areas
  /\ ran' = EndFrame("simulate_games")
  /\ UNCHANGED <<reports, last_report>>

print_win_rates ==
  /\ "print_win_rates" \notin ran
  /\ IF AllHalted
     THEN /\ reports < MaxReports
          /\ reports' = reports + 1
          /\ last_report' = Tally(games, Cardinality(GameIds))
     ELSE UNCHANGED <<reports, last_report>>
  /\ ran' = EndFrame("print_win_rates")
  /\ UNCHANGED <<games, decks, areas>>

\* mutant of spawn_decks: every game is given the enemy entity of game 0
spawn_decks_SharedEnemy(n, matchups) ==
  /\ games = [g \in 0 .. (n - 1) |->
                [player |-> <<g, "Player">>, enemy |-> <<0, "Enemy">>,
                 turn |-> "Play", side |-> "Player", turn_count |-> 0]]
  /\ decks \in [0 .. (n - 1) -> matchups]
  /\ areas = [g \in 0 .. (n - 1) |-> [s \in Sides |-> PlayAreaDefault]]
  /\ ran = {}
  /\ reports = 0
  /\ last_report = <<0, 0, 0>>

\* spawn_decks for n games; each game's two decks are one of matchups
spawn_decks(n, matchups) ==
  /\ games = [g \in 0 .. (n - 1) |->
                [player |-> <<g, "Player">>, enemy |-> <<g, "Enemy">>,
                 turn |-> "Play", side |-> "Player", turn_count |-> 0]]
  /\ decks \in [0 .. (n - 1) -> matchups]
  /\ areas = [g \in 0 .. (n - 1) |-> [s \in Sides |-> PlayAreaDefault]]
  /\ ran = {}
  /\ reports = 0
  /\ last_report = <<0, 0, 0>>

Next == simulate_games \/ print_win_rates

\* ---- Spec: one game of the program, both sides holding dummy_deck() ------
Init == spawn_decks(1, {[s \in Sides |-> dummy_deck]})

Spec == Init /\ [][Next]_vars

\* ---- SpecCap: one game over decks that also reach the turn cap ----------
\* dummy_deck() always ends in a win after a few turns; the cap of
\* MAX_TURN_COUNT turns is reached only by decks that stop dealing damage
BlockerDeck == [cards |-> << Card(0, 5) >>, health |-> DECK_HEALTH]

StrikerDeck == [cards |-> << Card(1, 1) >>, health |-> DECK_HEALTH]

EmptyDeck == [cards |-> << >>, health |-> DECK_HEALTH]

DeckChoices == {dummy_deck, BlockerDeck, StrikerDeck, EmptyDeck}

InitCap == spawn_decks(1, [Sides -> DeckChoices])

SpecCap == InitCap /\ [][Next]_vars

\* ---- SpecAll: NumGames games over one-card and empty decks --------------
Matchups ==
  {[Player |-> StrikerDeck, Enemy |-> EmptyDeck],
   [Player |-> EmptyDeck, Enemy |-> StrikerDeck],
   [Player |-> EmptyDeck, Enemy |-> EmptyDeck]}

InitAll == spawn_decks(NumGames, Matchups)

SpecAll == InitAll /\ [][Next]_vars

\* ---- properties ----------------------------------------------------------
\* a step that is one run of simulate_games
SimStep == "simulate_games" \notin ran /\ ran' = EndFrame("simulate_games")

GameUnchanged(g) ==
  games'[g] = games[g] /\ decks'[g] = decks[g] /\ areas'[g] = areas[g]

AreaCards(g, s) == {areas[g][s].cards[i] : i \in 0 .. (AREA_SIZE - 1)} \ {None}

\* C1: in an Attack phase, once the direct attack of slot 0 brings the
\* defender's deck health to <= 0 and sets turn = Halt, slot 1 changes
\* neither the defender's deck health, nor a defending card, nor a slot: the
\* decks and play areas after the tick are those left by slot 0.
C1_HaltStopsSlots ==
  [][\A g \in GameIds :
       (SimStep /\ games[g].turn = "Attack"
          /\ ResolveSlot(Match(g), 0).game.turn = "Halt")
       => /\ decks'[g] = ResolveSlot(Match(g), 0).decks
          /\ areas'[g] = ResolveSlot(Match(g), 0).areas]_vars

\* C2: once a game's turn is Halt (by a win or by the turn cap), no later
\* step changes its turn, side, turn_count, decks, play areas or cards.
C2_HaltFrozen ==
  [][\A g \in GameIds : games[g].turn = "Halt" => GameUnchanged(g)]_vars

C2_Witness ==
  \E g \in GameIds : /\ games[g].turn = "Halt"
                     /\ reports >= 1
                     /\ "simulate_games" \in ran

\* C3: a deck health <= 0 implies that the game is halted and that its side
\* is the opponent of the side whose deck health is <= 0.
C3_DeadDeckHalts ==
  \A g \in GameIds : \A s \in Sides :
    decks[g][s].health <= 0
      => games[g].turn = "Halt" /\ games[g].side = Other(s)

C3_Witness ==
  \E g \in GameIds : \E s \in Sides :
    decks[g][s].health <= 0 /\ games[g].side = Other(s)

\* C4: turn_count > 500 implies turn = Halt and side = Draw in every state
\* (so the Attack phase that passes 500 ends in Halt / Draw in its own
\* tick), and a game whose turn_count is > 500 is never changed again.
C4_CapIsDraw ==
  /\ [](\A g \in GameIds :
          games[g].turn_count > 500
            => games[g].turn = "Halt" /\ games[g].side = "Draw")
  /\ [][\A g \in GameIds : games[g].turn_count > 500 => GameUnchanged(g)]_vars

C4_Witness ==
  \E g \in GameIds : /\ games[g].turn_count = 501
                     /\ games[g].side = "Draw"
                     /\ "simulate_games" \in ran
                     /\ reports >= 1

\* C5: while a game is not halted its side is Player or Enemy; a Play phase
\* keeps side and moves to Attack; an Attack phase that does not halt flips
\* side and moves to Play, so no side takes two consecutive cycles.
C5_SideAlternates ==
  [][\A g \in GameIds :
       /\ games[g].turn # "Halt" => games[g].side \in Sides
       /\ (SimStep /\ games[g].turn = "Play")
            => games'[g].turn = "Attack" /\ games'[g].side = games[g].side
       /\ (SimStep /\ games[g].turn = "Attack" /\ games'[g].turn # "Halt")
            => /\ games'[g].turn = "Play"
               /\ games'[g].side = Other(games[g].side)
       /\ ~SimStep => games'[g] = games[g]]_vars

C5_Witness ==
  \E g \in GameIds : /\ games[g].turn_count >= 2
                     /\ games[g].turn = "Play"
                     /\ games[g].side = "Player"

\* C6: in an Attack phase, for each slot 0, 1 in which attacker and
\* defender both hold a card, the defending card's health afterwards is its
\* health before minus the attacker's damage, and the slot is cleared iff
\* that result is < 0 (a result of 0 keeps the card).
C6_BlockedDamage ==
  [][\A g \in GameIds :
       (SimStep /\ games[g].turn = "Attack")
       => \A slot \in Slots :
            LET card == areas[g][games[g].side].cards[slot]
                defender == areas[g][Other(games[g].side)].cards[slot]
                after == areas'[g][Other(games[g].side)].cards[slot]
            IN  (~card.none /\ ~defender.none)
                => IF defender.health - card.damage < 0
                   THEN after = None
                   ELSE after = Card(defender.damage,
                                     defender.health - card.damage)]_vars

\* a defender that blocked and was left with health 0
C6_Witness ==
  \E g \in GameIds : \E s \in Sides :
    \E c \in AreaCards(g, s) : c.health = 0

\* C7: in an Attack phase the defender's deck health decreases by the damage
\* of every attacking card whose opposite slot is empty, and by nothing
\* else; the attacker's deck health, and both deck healths in every other
\* step, are unchanged.
DirectDamage(g, slot) ==
  LET card == areas[g][games[g].side].cards[slot]
      defender == areas[g][Other(games[g].side)].cards[slot]
  IN  IF ~card.none /\ defender.none THEN card.damage ELSE 0

C7_DirectDamage ==
  [][\A g \in GameIds :
       IF SimStep /\ games[g].turn = "Attack"
       THEN /\ decks'[g][Other(games[g].side)].health
                 = decks[g][Other(games[g].side)].health
                     - DirectDamage(g, 0) - DirectDamage(g, 1)
            /\ decks'[g][games[g].side].health
                 = decks[g][games[g].side].health
       ELSE \A s \in Sides : decks'[g][s].health = decks[g][s].health]_vars

\* a deck that took direct damage while the other slot was blocked
C7_Witness ==
  \E g \in GameIds : \E s \in Sides :
    /\ decks[g][s].health < DECK_HEALTH
    /\ \E c \in AreaCards(g, s) : c.damage = 0 /\ c.health < 5

\* C8: side = Draw implies turn_count > 500 and turn = Halt, and a game in
\* Play or Attack has side Player or Enemy.
C8_DrawOnlyByCap ==
  \A g \in GameIds :
    /\ games[g].side = "Draw"
         => games[g].turn_count > 500 /\ games[g].turn = "Halt"
    /\ games[g].turn \in {"Play", "Attack"} => games[g].side \in Sides

C8_Witness ==
  \E g \in GameIds : games[g].side = "Draw" /\ games[g].turn = "Halt"

\* C9: a report is made of halted games only, its three counts sum to the
\* number of games, and each count is the number of games whose terminal
\* side is Player, Enemy, Draw respectively.
C9_TallySum ==
  reports > 0
    => /\ AllHalted
       /\ last_report[1] + last_report[2] + last_report[3]
            = Cardinality(GameIds)
       /\ last_report[1]
            = Cardinality({g \in GameIds : games[g].side = "Player"})
       /\ last_report[2]
            = Cardinality({g \in GameIds : games[g].side = "Enemy"})
       /\ last_report[3]
            = Cardinality({g \in GameIds : games[g].side = "Draw"})

C9_Witness ==
  reports > 0 /\ last_report[3] >= 1 /\ last_report[1] + last_report[2] >= 1

\* C10: the tally reports only in a frame in which every game is halted,
\* and it reports once: no report follows an earlier report.
C10_ReportsOnce ==
  [][reports' # reports => (AllHalted /\ reports = 0)]_vars

\* C11: a Play phase removes exactly one card from the active side's deck if
\* it was non-empty and leaves it empty otherwise; it leaves the other
\* side's deck cards unchanged; no step increases the number of cards of a
\* deck.
C11_DeckShrinks ==
  [][\A g \in GameIds :
       IF SimStep /\ games[g].turn = "Play"
       THEN /\ Len(decks'[g][games[g].side].cards)
                 = IF Len(decks[g][games[g].side].cards) = 0 THEN 0
                   ELSE Len(decks[g][games[g].side].cards) - 1
            /\ decks'[g][Other(games[g].side)].cards
                 = decks[g][Other(games[g].side)].cards
       ELSE \A s \in Sides :
              Len(decks'[g][s].cards) <= Len(decks[g][s].cards)]_vars

\* the active side has just drawn the last card of its deck
C11_Witness ==
  \E g \in GameIds :
    /\ games[g].turn = "Attack" /\ games[g].side \in Sides
    /\ games[g].turn_count \in {6, 7}
    /\ Len(decks[g][games[g].side].cards) = 0

\* a card of a play area that has taken damage since it was placed
Damaged(c) == ~c.none /\ c.health < (IF c.damage = 0 THEN 5 ELSE 1)

\* C12: a Play phase changes at most one slot of the active side's play
\* area, only a slot 0 or 1 that was empty, and only to a card of the deck;
\* if slots 0 and 1 are both occupied the play area is unchanged and the
\* drawn card has left the deck.
C12_PlaceInOpenSlot ==
  [][\A g \in GameIds :
       (SimStep /\ games[g].turn = "Play")
       => LET s == games[g].side
              before == areas[g][s].cards
              after == areas'[g][s].cards
              changed == {i \in 0 .. (AREA_SIZE - 1) : after[i] # before[i]}
              deck == decks[g][s].cards
          IN  /\ Cardinality(changed) <= 1
              /\ \A i \in changed :
                   /\ i \in {0, 1}
                   /\ before[i] = None
                   /\ \E k \in 1 .. Len(deck) : after[i] = deck[k]
              /\ (before[0] # None /\ before[1] # None)
                   => /\ changed = {}
                      /\ Len(deck) > 0
                           => Len(decks'[g][s].cards) = Len(deck) - 1]_vars

\* a card was drawn while both slots held cards placed earlier (both have
\* taken damage since), so it was discarded
C12_Witness ==
  \E g \in GameIds :
    /\ games[g].turn = "Attack" /\ games[g].side \in Sides
    /\ Len(decks[g][games[g].side].cards) >= 1
    /\ Damaged(areas[g][games[g].side].cards[0])
    /\ Damaged(areas[g][games[g].side].cards[1])

\* C13: a Play phase always sets turn = Attack and leaves side, turn_count,
\* both deck healths, the other side's play area and every card already in
\* the active side's play area unchanged.
C13_PlayFrame ==
  [][\A g \in GameIds :
       (SimStep /\ games[g].turn = "Play")
       => LET s == games[g].side
          IN  /\ games'[g] = [games[g] EXCEPT !.turn = "Attack"]
              /\ \A t \in Sides : decks'[g][t].health = decks[g][t].health
              /\ areas'[g][Other(s)] = areas[g][Other(s)]
              /\ \A i \in 0 .. (AREA_SIZE - 1) :
                   areas[g][s].cards[i] # None
                     => areas'[g][s].cards[i] = areas[g][s].cards[i]]_vars

\* a Play phase that found its deck already empty has moved on to Attack
C13_Witness ==
  \E g \in GameIds :
    /\ games[g].turn = "Attack" /\ games[g].side \in Sides
    /\ games[g].turn_count >= 8
    /\ Len(decks[g][games[g].side].cards) = 0

\* every order in which the query could yield the games
Orders ==
  {[i \in 1 .. Len(QueryOrder) |-> QueryOrder[p[i]]] :
     p \in Perms(Len(QueryOrder))}

\* C14: the iteration of one game changes the Game, decks and play areas of
\* no other game, and the worlds a tick can produce are the same for every
\* order in which the games are iterated.
C14_GamesIndependent ==
  /\ \A g \in GameIds : \A m \in StepGame(Match(g)) :
       \A h \in GameIds \ {g} :
         /\ PutMatch(World, g, m).games[h] = games[h]
         /\ PutMatch(World, g, m).decks[h] = decks[h]
         /\ PutMatch(World, g, m).areas[h] = areas[h]
  /\ \A order \in Orders :
       IterateGames(World, order) = IterateGames(World, QueryOrder)

\* two running games in different states have been advanced by a tick
C14_Witness ==
  \E g, h \in GameIds :
    /\ g # h
    /\ games[g].turn = "Attack" /\ games[h].turn = "Attack"
    /\ games[g].turn_count >= 2
    /\ decks[g] # decks[h]
    /\ areas[g] # areas[h]

\* ---- SpecMocked: one game of dummy_deck() with the rng mocked ------------
\* rng.shuffle leaves the order as it is, so the deck is drawn tail first and
\* get_random_open_slot returns the lowest open slot
LowestSlot(slots) == CHOOSE s \in slots : \A t \in slots : s <= t

StepGameMocked(m) ==
  IF m.game.side # "Draw" /\ m.game.turn = "Play"
  THEN {PlayPhase(m, m.decks[m.game.side].cards,
                  LowestSlot(get_random_open_slot(m.areas[m.game.side])))}
  ELSE StepGame(m)

RECURSIVE IterateGamesMocked(_, _)
IterateGamesMocked(w, order) ==
  IF order = << >> THEN {w}
  ELSE UNION {IterateGamesMocked(PutMatch(w, Head(order), m), Tail(order)) :
                m \in StepGameMocked(MatchIn(w, Head(order)))}

simulate_games_mocked ==
  /\ "simulate_games" \notin ran
  /\ \E w \in IterateGamesMocked(World, QueryOrder) :
       /\ games' = w.games
       /\ decks' = w.decks
       /\ areas' = w.areas
  /\ ran' = EndFrame("simulate_games")
  /\ UNCHANGED <<reports, last_report>>

NextMocked == simulate_games_mocked \/ print_win_rates

\* the Update schedule runs every system in every frame
SpecMocked ==
  /\ Init
  /\ [][NextMocked]_vars
  /\ WF_vars(simulate_games_mocked)
  /\ WF_vars(print_win_rates)

\* C15: with the rng mocked, the match of two dummy_deck() sides reaches
\* Halt; it halts with turn_count <= 500 and a winner Player or Enemy whose
\* opponent's deck health is <= 0; and every tick has exactly one possible
\* result, so every run goes through the same game states.
C15_MockedRunHalts ==
  /\ <>(\A g \in GameIds : games[g].turn = "Halt")
  /\ [](\A g \in GameIds :
          games[g].turn = "Halt"
            => /\ games[g].turn_count <= 500
               /\ games[g].side \in Sides
               /\ decks[g][Other(games[g].side)].health <= 0)
  /\ [][SimStep =>
          /\ Cardinality(IterateGamesMocked(World, QueryOrder)) = 1
          /\ World' \in IterateGamesMocked(World, QueryOrder)]_vars

C15_Witness ==
  \E g \in GameIds :
    /\ games[g].turn = "Halt"
    /\ games[g].side = "Enemy"
    /\ games[g].turn_count = 13
    /\ decks[g]["Player"].health = -1
    /\ decks[g]["Enemy"].health = 3

\* C16: slot 2 of every play area is empty in every state.
C16_Slot2Empty ==
  \A g \in GameIds : \A s \in Sides : areas[g][s].cards[2] = None

\* a card was drawn while slot 2 was the only empty slot of the play area
C16_Witness ==
  \E g \in GameIds :
    /\ games[g].turn = "Attack" /\ games[g].side \in Sides
    /\ Len(decks[g][games[g].side].cards) = 1
    /\ Damaged(areas[g][games[g].side].cards[0])
    /\ Damaged(areas[g][games[g].side].cards[1])
    /\ areas[g][games[g].side].cards[2] = None

\* ---- SpecSmallFair: one game over the one-card and empty decks, with ----
\* every system run in every frame
SmallDecks == {BlockerDeck, StrikerDeck, EmptyDeck}

InitSmall == spawn_decks(1, [Sides -> SmallDecks])

SpecSmallFair ==
  /\ InitSmall
  /\ [][Next]_vars
  /\ WF_vars(simulate_games)
  /\ WF_vars(print_win_rates)

\* progress of a game: two per counted turn, one more in its Attack phase
Progress(game) == 2 * game.turn_count + (IF game.turn = "Attack" THEN 1 ELSE 0)

C18_ExactlyOneLoser ==
  \A g \in GameIds :
    games[g].turn = "Halt"
      => IF games[g].side \in Sides
         THEN /\ decks[g][Other(games[g].side)].health <= 0
              /\ decks[g][games[g].side].health > 0
         ELSE \A s \in Sides : decks[g][s].health > 0

\* a win by a side whose own deck had taken damage
C18_Witness ==
  \E g \in GameIds :
    /\ games[g].turn = "Halt" /\ games[g].side \in Sides
    /\ decks[g][Other(games[g].side)].health <= 0
    /\ decks[g][games[g].side].health \in 1 .. (DECK_HEALTH - 1)

\* C19: every card in a play-area slot has health >= 0; in an Attack phase
\* an attacking card with health 0 stays in its slot and deals its whole
\* damage, to the blocker of its slot or else to the defender's deck.
C19_CardsNotNegative ==
  /\ [](\A g \in GameIds : \A s \in Sides :
          \A c \in AreaCards(g, s) : c.health >= 0)
  /\ [][\A g \in GameIds :
          (SimStep /\ games[g].turn = "Attack")
          => \A slot \in Slots :
               LET card == areas[g][games[g].side].cards[slot]
                   defender == areas[g][Other(games[g].side)].cards[slot]
               IN  (~card.none /\ card.health = 0)
                   => /\ areas'[g][games[g].side].cards[slot] = card
                      /\ IF defender.none
                         THEN decks'[g][Other(games[g].side)].health
                                <= decks[g][Other(games[g].side)].health
                                     - card.damage
                         ELSE areas'[g][Other(games[g].side)].cards[slot]
                                = IF defender.health < card.damage THEN None
                                  ELSE Card(defender.damage,
                                            defender.health - card.damage)]_vars

\* a card left with health 0 has since attacked the other side's deck
C19_Witness ==
  \E g \in GameIds : \E s \in Sides :
    /\ games[g].turn = "Play" /\ games[g].side = Other(s)
    /\ decks[g][Other(s)].health < DECK_HEALTH
    /\ \E slot \in Slots :
         /\ areas[g][s].cards[slot].health = 0
         /\ areas[g][s].cards[slot].damage > 0
         /\ areas[g][Other(s)].cards[slot] = None

\* ---- SpecSturdy: SpecCap with a deck that lasts until the cap ------------
\* a side without cards whose health a one-damage attacker brings to 0 in
\* the Attack phase entered with turn_count = MAX_TURN_COUNT
SturdyDeck == [cards |-> << >>, health |-> (MAX_TURN_COUNT \div 2) + 1]

InitSturdy == spawn_decks(1, [Sides -> DeckChoices \cup {SturdyDeck}])

SpecSturdy == InitSturdy /\ [][Next]_vars

\* C20: turn_count is unchanged by a Play phase, by an Attack phase that
\* ends with the defender's deck health <= 0 (which halts with side left as
\* the attacker, also when turn_count is 500) and by every other step; every
\* other Attack phase adds exactly 1; turn_count never exceeds 501.
C20_TurnCount ==
  /\ [](\A g \in GameIds : games[g].turn_count <= 501)
  /\ [][\A g \in GameIds :
          IF SimStep /\ games[g].turn = "Attack"
          THEN IF decks'[g][Other(games[g].side)].health <= 0
               THEN /\ games'[g].turn_count = games[g].turn_count
                    /\ games'[g].turn = "Halt"
                    /\ games'[g].side = games[g].side
               ELSE games'[g].turn_count = games[g].turn_count + 1
          ELSE games'[g].turn_count = games[g].turn_count]_vars

\* a win in the Attack phase that would have raised turn_count to 501
C20_Witness ==
  \E g \in GameIds :
    /\ games[g].turn = "Halt"
    /\ games[g].turn_count = 500
    /\ games[g].side \in Sides
    /\ decks[g][Other(games[g].side)].health <= 0
====
